---------------------------- MODULE Spec2Model ----------------------------
(***************************************************************************)
(* Model of the Graph component (src/unnamed/part_000): the aggregation of *)
(* the rows of /mouse_data.csv into 2.5-minute windows by                  *)
(* loadAndProcessData, and the handlers that change the view state and     *)
(* redraw the two charts.                                                  *)
(*                                                                         *)
(* JavaScript numbers are modelled as exact rationals [k, n, d] (n/d in    *)
(* lowest terms, d > 0), with NaN and undefined as values of their own.    *)
(* The unit conversions toFahrenheit and toCelsius are modelled in         *)
(* binary64 as well, with the rounding of each of their operations.        *)
(***************************************************************************)
EXTENDS Integers, Sequences, FiniteSets, TLC

VARIABLES
    csv,                    \* the table served at /mouse_data.csv: [columns, rows]
    processedData,          \* ProcessedDataPoint[]
    useFahrenheit,          \* boolean
    dataType,               \* 'female' | 'male' | 'both'
    showEstrus,             \* boolean
    currentBrushSelection,  \* [x0, x1] in days, or null
    mounted,                \* onMount has run
    awaitingFetch,          \* calls of loadAndProcessData suspended at `await fetch(...)`
    awaitingText,           \* calls suspended at `await response.text()`
    rejected,               \* a call was rejected at an await (nothing catches it)
    svg,                    \* what the main chart shows
    brushSvg,               \* what the brush overview shows
    conversion,             \* a temperature taken through toFahrenheit and toCelsius
    lastSettled,            \* how the call that ended last ended
    banding                 \* a window taken through its summary and a drawing

vars == <<csv, processedData, useFahrenheit, dataType, showEstrus,
          currentBrushSelection, mounted, awaitingFetch, awaitingText,
          rejected, svg, brushSvg, conversion, lastSettled, banding>>

-----------------------------------------------------------------------------
(* Bounds of the model *)

\* short tables: every sequence of at most MaxRows rows over RowValues
MaxRows == 5
\* long tables: k * 720 + 1 identical rows for k in 1..MaxHalfDays
MaxHalfDays == 6
\* calls of loadAndProcessData in flight at once
MaxLoads == 2
\* temperatures taken through the conversions: 0.0, 0.1, ... MaxTenths / 10
MaxTenths == 400

-----------------------------------------------------------------------------
(* JavaScript numbers *)

RECURSIVE GCD(_, _)
GCD(a, b) == IF b = 0 THEN a ELSE GCD(b, a % b)

Abs(a) == IF a < 0 THEN -a ELSE a

\* the number n/d (d # 0), in lowest terms with a positive denominator
Num(n, d) ==
    LET g == GCD(Abs(n), Abs(d))
        s == IF d < 0 THEN -1 ELSE 1
    IN  [k |-> "number", n |-> s * (n \div g), d |-> s * (d \div g)]

Whole(i) == [k |-> "number", n |-> i, d |-> 1]

NaN == [k |-> "NaN", n |-> 0, d |-> 1]

Undefined == [k |-> "undefined", n |-> 0, d |-> 1]

IsNumber(x) == x.k = "number"

Add(x, y) == Num(x.n * y.d + y.n * x.d, x.d * y.d)
Sub(x, y) == Num(x.n * y.d - y.n * x.d, x.d * y.d)
Mul(x, y) == Num(x.n * y.n, x.d * y.d)
Div(x, y) == Num(x.n * y.d, x.d * y.n)
Less(x, y) == x.n * y.d < y.n * x.d
LessEq(x, y) == x.n * y.d <= y.n * x.d
Max(x, y) == IF Less(x, y) THEN y ELSE x
Min(x, y) == IF Less(y, x) THEN y ELSE x

\* Math.floor
Floor(x) == Whole(x.n \div x.d)

\* x % m for x >= 0 and m > 0
Rem(x, m) == Sub(x, Mul(m, Floor(Div(x, m))))

\* the value as it is, without the fallback to 0
KeepValue(v) == v

\* `v || 0`: undefined, NaN and 0 are falsy
OrZero(v) == IF IsNumber(v) /\ v.n # 0 THEN v ELSE Whole(0)

-----------------------------------------------------------------------------
(* The table: d3.csvParse gives every row one string per header column *)

\* the column named `${prefix}${i}`
Col(prefix, i) == <<prefix, i>>

\* d[col]: the cell's text, or undefined when the header has no such column
Field(d, col) ==
    IF col \in DOMAIN d THEN [t |-> "string", s |-> d[col]]
                        ELSE [t |-> "undefined", s |-> ""]

\* the decimal literals that occur in the tables
Decimal ==
    ("36.8" :> Num(368, 10)) @@ ("37.0" :> Whole(37)) @@
    ("37.2" :> Num(372, 10)) @@ ("37.4" :> Num(374, 10))

\* unary plus, `+d[col]`: undefined is NaN, the empty string is 0, a decimal
\* literal is its value and any other text is NaN
ToNumber(v) ==
    IF v.t = "undefined" THEN NaN
    ELSE IF v.s = "" THEN Whole(0)
    ELSE IF v.s \in DOMAIN Decimal THEN Decimal[v.s]
    ELSE NaN

\* d3.mean: the mean of the values that are numbers, undefined if there is none
RECURSIVE SumFrom(_, _)
SumFrom(values, i) ==
    IF i > Len(values) THEN [count |-> 0, sum |-> Whole(0)]
    ELSE LET rest == SumFrom(values, i + 1)
         IN  IF IsNumber(values[i])
             THEN [count |-> rest.count + 1, sum |-> Add(values[i], rest.sum)]
             ELSE rest

d3mean(values) ==
    LET t == SumFrom(values, 1)
    IN  IF t.count # 0 THEN Div(t.sum, Whole(t.count)) ELSE Undefined

-----------------------------------------------------------------------------
(* loadAndProcessData: the aggregation *)

DataType == {"female", "male", "both"}

CohortSize == 13

getTempCols(type) ==
    CASE type = "female" -> [i \in 1..CohortSize |-> Col("fem_temp_", i)]
      [] type = "male"   -> [i \in 1..CohortSize |-> Col("male_temp_", i)]
      [] type = "both"   -> [i \in 1..CohortSize |-> Col("fem_temp_", i)]
                            \o [i \in 1..CohortSize |-> Col("male_temp_", i)]

windowSize == Num(5, 2)

MinutesPerDay == 1440

HalfDay == 720

EstrusPeriod == 4

EstrusDay == 2

\* Map<number, number[]>: the keys in insertion order and the array of each key
EmptyMap == [keys |-> <<>>, vals |-> <<>>]

MapHas(m, key) == key \in DOMAIN m.vals

\* a map that lists a new key before the keys it holds
MapSetFirst(m, key, array) ==
    [keys |-> <<key>> \o m.keys, vals |-> m.vals @@ (key :> array)]

MapSet(m, key, array) ==
    [keys |-> Append(m.keys, key), vals |-> m.vals @@ (key :> array)]

MapPush(m, key, value) ==
    [m EXCEPT !.vals = [@ EXCEPT ![key] = Append(@, value)]]

\* Array.from(m.entries())
MapEntries(m) == [e \in 1..Len(m.keys) |-> <<m.keys[e], m.vals[m.keys[e]]>>]

\* rounding the quotient up instead of down
WindowIndexCeil(i) ==
    LET q == Div(Whole(i), windowSize)
    IN  IF q.d = 1 THEN q.n ELSE Floor(q).n + 1

\* windows that start at the rows floor(2.5 w)
WindowIndexAhead(i) ==
    LET q == Div(Whole(i + 1), windowSize)
    IN  (IF q.d = 1 THEN q.n ELSE Floor(q).n + 1) - 1

\* Math.floor(i / windowSize), as a number of windows
WindowIndex(i) == Floor(Div(Whole(i), windowSize)).n

\* `d3.mean(temps) || 0` of one row, over the columns of the selected cohort
RowAvgTemp(d, type) ==
    LET tempCols == getTempCols(type)
        temps == [c \in 1..Len(tempCols) |-> ToNumber(Field(d, tempCols[c]))]
    IN  OrZero(d3mean(temps))

\* pushing every cell of the row that reads as a number, which pools the
\* cells of a window
GroupRowPooled(groupedData, d, i, type) ==
    LET windowIndex == Floor(Div(Whole(i), windowSize)).n
        tempCols == getTempCols(type)
        temps == [c \in 1..Len(tempCols) |-> ToNumber(Field(d, tempCols[c]))]
        g == IF windowIndex \in DOMAIN groupedData.vals THEN groupedData
             ELSE [keys |-> Append(groupedData.keys, windowIndex),
                   vals |-> groupedData.vals @@ (windowIndex :> <<>>)]
    IN  [g EXCEPT !.vals = [@ EXCEPT ![windowIndex] = @ \o SelectSeq(temps, IsNumber)]]

\* the body of rows.forEach for row d at index i (from 0)
GroupRow(groupedData, d, i, type) ==
    LET windowIndex == WindowIndex(i)
        avgTemp == RowAvgTemp(d, type)
        g == IF ~MapHas(groupedData, windowIndex)
             THEN MapSet(groupedData, windowIndex, <<>>)
             ELSE groupedData
    IN  MapPush(g, windowIndex, avgTemp)

\* rows.forEach over the indices lo..hi in increasing order
RECURSIVE GroupRows(_, _, _, _, _)
GroupRows(groupedData, rows, lo, hi, type) ==
    IF lo > hi THEN groupedData
    ELSE IF lo = hi THEN GroupRow(groupedData, rows[lo + 1], lo, type)
    ELSE LET mid == (lo + hi) \div 2
             done == GroupRows(groupedData, rows, lo, mid, type)
         IN  \* the rows lo..mid are grouped before the rows after them
             IF Len(done.keys) > 0
             THEN GroupRows(done, rows, mid + 1, hi, type)
             ELSE done

\* the half day taken to include its last minute
LightOfInclusive(minuteOfDay) ==
    IF LessEq(minuteOfDay, Whole(HalfDay)) THEN 1 ELSE 0

LightOf(minuteOfDay) == IF Less(minuteOfDay, Whole(HalfDay)) THEN 1 ELSE 0

\* estrus from the estrus day to the end of the period
EstrusOfFrom(day) == IF day % EstrusPeriod >= EstrusDay THEN 1 ELSE 0

EstrusOf(day) == IF day % EstrusPeriod = EstrusDay THEN 1 ELSE 0

\* one ProcessedDataPoint from one entry [windowIndex, temps]
WindowSummary(entry) ==
    LET windowIndex == entry[1]
        temps == entry[2]
        minute == Mul(Whole(windowIndex), windowSize)
        day == Floor(Div(minute, Whole(MinutesPerDay))).n
        minuteOfDay == Rem(minute, Whole(MinutesPerDay))
    IN  [minute  |-> minute,
         day     |-> Div(minute, Whole(MinutesPerDay)),
         avgTemp |-> OrZero(d3mean(temps)),
         light   |-> LightOf(minuteOfDay),
         estrus  |-> EstrusOf(day)]

\* lines 111-142: the value assigned to processedData
Aggregate(rows, type) ==
    LET groupedData == GroupRows(EmptyMap, rows, 0, Len(rows) - 1, type)
        entries == MapEntries(groupedData)
    IN  [e \in 1..Len(entries) |-> WindowSummary(entries[e])]

-----------------------------------------------------------------------------
(* binary64: the numbers toFahrenheit and toCelsius compute with *)

\* A finite binary64 that is not negative is [hi, lo, e]: the number m * 2^e
\* with m = hi * 2^27 + lo, where 2^52 <= m < 2^53, or m = 0 and e = 0.
Limb == 134217728

F64Zero == [hi |-> 0, lo |-> 0, e |-> 0]

IsZero64(x) == x.hi = 0 /\ x.lo = 0

\* the number of bits of a natural number
RECURSIVE BitLen(_)
BitLen(n) == IF n = 0 THEN 0 ELSE 1 + BitLen(n \div 2)

\* m * 2^t for m = hi * 2^27 + lo, where the result is below 2^58
ShiftUp(hi, lo, t) ==
    IF t < 27
    THEN [hi |-> hi * 2^t + lo \div 2^(27 - t),
          lo |-> (lo % 2^(27 - t)) * 2^t]
    ELSE [hi |-> lo * 2^(t - 27), lo |-> 0]

\* m \div 2^t, and whether a bit of m was shifted out
ShiftDown(hi, lo, t) ==
    IF t = 0 THEN [hi |-> hi, lo |-> lo, sticky |-> FALSE]
    ELSE IF t < 27
    THEN [hi |-> hi \div 2^t,
          lo |-> lo \div 2^t + (hi % 2^t) * 2^(27 - t),
          sticky |-> lo % 2^t # 0]
    ELSE IF t < 54
    THEN [hi |-> 0,
          lo |-> hi \div 2^(t - 27),
          sticky |-> hi % 2^(t - 27) # 0 \/ lo # 0]
    ELSE [hi |-> 0, lo |-> 0, sticky |-> hi # 0 \/ lo # 0]

\* The binary64 nearest to (m + f) * 2^e, ties to even, where
\* m = hi * 2^27 + lo is below 2^58 and f is 0, or when sticky a fraction
\* strictly between 0 and 1 (then m has more than 53 bits).
Round64(hi, lo, e, sticky) ==
    IF hi = 0 /\ lo = 0 THEN F64Zero
    ELSE
    LET len == IF hi > 0 THEN BitLen(hi) + 27 ELSE BitLen(lo)
    IN  IF len <= 53
        THEN LET m == ShiftUp(hi, lo, 53 - len)
             IN  [hi |-> m.hi, lo |-> m.lo, e |-> e - (53 - len)]
        ELSE
        LET s == len - 53
            kept == ShiftDown(hi, lo, s)
            dropped == lo % 2^s
            half == 2^(s - 1)
            up == \/ dropped > half
                  \/ dropped = half /\ (sticky \/ kept.lo % 2 = 1)
            lo1 == kept.lo + (IF up THEN 1 ELSE 0)
            hi1 == kept.hi + (IF lo1 = Limb THEN 1 ELSE 0)
        IN  IF hi1 = 2^26
            THEN [hi |-> 2^25, lo |-> 0, e |-> e + s + 1]
            ELSE [hi |-> hi1, lo |-> lo1 % Limb, e |-> e + s]

\* the binary64 of a natural number below 2^27
FromInt(n) == Round64(0, n, 0, FALSE)

\* a <= b
LessEq64(a, b) ==
    IF IsZero64(a) THEN TRUE
    ELSE IF IsZero64(b) THEN FALSE
    ELSE \/ a.e < b.e
         \/ a.e = b.e /\ a.hi < b.hi
         \/ a.e = b.e /\ a.hi = b.hi /\ a.lo <= b.lo

\* The two mantissas at the exponent big.e - 3, for big >= small > 0: three
\* more bits of big below its last place, and small shifted to them.
Aligned(big, small) ==
    LET t == (big.e - 3) - small.e
    IN  [big   |-> ShiftUp(big.hi, big.lo, 3),
         small |-> IF t <= 0
                   THEN ShiftUp(small.hi, small.lo, -t) @@ [sticky |-> FALSE]
                   ELSE ShiftDown(small.hi, small.lo, t),
         e     |-> big.e - 3]

\* a + b in binary64
Add64(a, b) ==
    IF IsZero64(a) THEN b
    ELSE IF IsZero64(b) THEN a
    ELSE
    LET al == IF LessEq64(b, a) THEN Aligned(a, b) ELSE Aligned(b, a)
        lo == al.big.lo + al.small.lo
        hi == al.big.hi + al.small.hi + lo \div Limb
    IN  Round64(hi, lo % Limb, al.e, al.small.sticky)

\* a - b in binary64, for a >= b
Sub64(a, b) ==
    IF IsZero64(b) THEN a
    ELSE
    LET al == Aligned(a, b)
        \* what was shifted out of b is taken from one more unit
        take == al.small.lo + (IF al.small.sticky THEN 1 ELSE 0)
        borrow == IF al.big.lo < take THEN 1 ELSE 0
        lo == al.big.lo + borrow * Limb - take
        hi == al.big.hi - al.small.hi - borrow
    IN  Round64(hi, lo, al.e, al.small.sticky)

\* x * k in binary64, for a natural number k <= 15
MulInt64(x, k) ==
    LET lo == x.lo * k
    IN  Round64(x.hi * k + lo \div Limb, lo % Limb, x.e, FALSE)

\* x / k in binary64, for a natural number 0 < k <= 15: the quotient of
\* m * 2^5 by k, and whether the division left a remainder
DivInt64(x, k) ==
    LET hi == x.hi * 32 + x.lo \div 2^22
        lo == (x.lo % 2^22) * 32
        rest == (hi % k) * Limb + lo
    IN  Round64(hi \div k, rest \div k, x.e - 5, rest % k # 0)

\* The mantissa as three digits of 18 bits, highest first
Digits18(x) ==
    <<x.hi \div 2^9, (x.hi % 2^9) * 2^9 + (x.lo \div 2^18), x.lo % 2^18>>

\* x * k in binary64, for a natural number 0 < k < 2^10: the product of the
\* digits by k, without the s lowest bits when k has more than three bits
MulBy64(x, k) ==
    LET a == Digits18(x)
        p0 == a[3] * k
        p1 == a[2] * k + (p0 \div 2^18)
        p2 == a[1] * k + (p1 \div 2^18)
        low == ((p1 % 2^18) % 2^9) * 2^18 + (p0 % 2^18)
        mid == (p1 % 2^18) \div 2^9
        s == IF BitLen(k) > 3 THEN BitLen(k) - 3 ELSE 0
    IN  Round64(p2 * 2^(9 - s) + (mid \div 2^s),
                (mid % 2^s) * 2^(27 - s) + (low \div 2^s),
                x.e + s, (low % 2^s) # 0)

\* x / k in binary64, for a natural number 0 < k < 2^10: the quotient of
\* m * 2^g by k digit by digit, and whether the division left a remainder
DivBy64(x, k) ==
    LET a == Digits18(x)
        g == BitLen(k) + 2
        t1 == (a[1] % k) * 2^18 + a[2]
        t0 == (t1 % k) * 2^18 + a[3]
        q1 == t1 \div k
        whole == ShiftUp((a[1] \div k) * 2^9 + (q1 \div 2^9),
                         (q1 % 2^9) * 2^18 + (t0 \div k), g)
        rest == (t0 % k) * 2^g
    IN  Round64(whole.hi, whole.lo + (rest \div k), x.e - g, (rest % k) # 0)

-----------------------------------------------------------------------------
(* The view: units, scales and the two charts *)

\* The conversions in exact arithmetic: what the charts are drawn with, whose
\* windows are exact rationals.
toFahrenheitExact(celsius) == Add(Div(Mul(celsius, Whole(9)), Whole(5)), Whole(32))

toCelsiusExact(fahrenheit) == Div(Mul(Sub(fahrenheit, Whole(32)), Whole(5)), Whole(9))

\* toFahrenheit: (celsius * 9/5) + 32, each operation rounded to binary64
toFahrenheit(celsius) ==
    Add64(DivInt64(MulInt64(celsius, 9), 5), FromInt(32))

\* (fahrenheit * 5/9) without the offset
toCelsiusNoOffset(fahrenheit) == DivInt64(MulInt64(fahrenheit, 5), 9)

\* toCelsius: (fahrenheit - 32) * 5/9, each operation rounded to binary64
toCelsius(fahrenheit) ==
    DivInt64(MulInt64(Sub64(fahrenheit, FromInt(32)), 5), 9)

getDisplayTemp(st, temp) == IF st.useFahrenheit THEN toFahrenheitExact(temp) ELSE temp

getTempUnit(st) == IF st.useFahrenheit THEN "F" ELSE "C"

getYDomain(st) ==
    IF st.useFahrenheit
    THEN <<toFahrenheitExact(Num(3525, 100)), toFahrenheitExact(Whole(39))>>
    ELSE <<Num(3525, 100), Whole(39)>>

\* the props width and margin.left, margin.right
Width == 800

MarginLeft == 60

MarginRight == 60

InnerWidth == Width - MarginLeft - MarginRight

\* the days on the x axis of the full view
NumDays == 14

\* null, for currentBrushSelection and for a brush event without a selection
Null == <<>>

FullDomain == <<Whole(0), Whole(NumDays)>>

\* d3.scaleLinear().domain(domain).range([0, innerWidth]) applied to x
xScale(domain, x) ==
    Mul(Div(Sub(x, domain[1]), Sub(domain[2], domain[1])), Whole(InnerWidth))

\* The numbers of the charts are exact rationals, or binary64 where a run
\* follows the value stored in currentBrushSelection bit by bit.
IsBinary64(x) == "hi" \in DOMAIN x

\* The scale of the overview and its inverse on binary64, as d3 computes
\* them for the domain [0, 14] and the range [0, innerWidth]:
\* 0 * (1 - t) + 680 * t with t = (x - 0) / 14, and
\* 0 * (1 - t) + 14 * t with t = (px - 0) / 680.
xScale64(x) == MulBy64(DivInt64(x, NumDays), InnerWidth)

xInvert64(px) == MulInt64(DivBy64(px, InnerWidth), NumDays)

\* the binary64 of a window's day: minute / 1440, one rounded division
Day64(day) == DivBy64(FromInt(day.n), day.d)

\* taking the pixels of the brush for days
xInvertPixels(px) == px

\* xScale.invert of the brush overview, whose domain is the full range
xInvert(px) ==
    IF IsBinary64(px) THEN xInvert64(px)
    ELSE Add(FullDomain[1],
             Mul(Div(px, Whole(InnerWidth)),
                 Sub(FullDomain[2], FullDomain[1])))

\* xScale of the brush overview
xScaleBrush(x) ==
    IF IsBinary64(x) THEN xScale64(x) ELSE xScale(FullDomain, x)

\* the view state the render functions read and write
State ==
    [processedData |-> processedData, useFahrenheit |-> useFahrenheit,
     dataType |-> dataType, showEstrus |-> showEstrus,
     currentBrushSelection |-> currentBrushSelection,
     svg |-> svg, brushSvg |-> brushSvg]

\* an <svg> element nothing has been drawn into
Blank ==
    [drawn |-> FALSE, xDomain |-> Null, estrus |-> FALSE, line |-> <<>>,
     title |-> "", unit |-> "", selection |-> Null]

\* a background rect from day `from` to day `to`, clipped to the x domain
Band(xDomain, from, to) ==
    LET x == xScale(xDomain, Max(from, xDomain[1]))
    IN  [x |-> x, width |-> Sub(xScale(xDomain, Min(to, xDomain[2])), x)]

\* the rects appended for the lights-off and lights-on half of each day
DarkBands(xDomain) ==
    [day \in 1..NumDays |->
        Band(xDomain, Whole(day - 1), Add(Whole(day - 1), Num(1, 2)))]

LightBands(xDomain) ==
    [day \in 1..NumDays |->
        Band(xDomain, Add(Whole(day - 1), Num(1, 2)), Whole(day))]

\* the last estrus rect one day late
EstrusDaysLate == <<2, 6, 11>>

EstrusDays == <<2, 6, 10>>

\* the estrus rects of the main chart: the days that meet the x domain
EstrusBands(xDomain) ==
    LET shown == SelectSeq(EstrusDays,
                     LAMBDA day : /\ LessEq(xDomain[1], Whole(day + 1))
                                  /\ LessEq(Whole(day), xDomain[2]))
    IN  [e \in 1..Len(shown) |->
            Band(xDomain, Whole(shown[e]), Whole(shown[e] + 1))]

\* the estrus rects of the brush overview
BrushEstrusBands ==
    [e \in 1..Len(EstrusDays) |->
        Band(FullDomain, Whole(EstrusDays[e]), Whole(EstrusDays[e] + 1))]

\* the points of the temperature line: the day and the displayed temperature
LinePoints(st, data) ==
    [p \in 1..Len(data) |->
        [day |-> data[p].day, temp |-> getDisplayTemp(st, data[p].avgTemp)]]

\* a filter that tests the lower end of the domain only
InDomainFrom(xDomain, d) == LessEq(xDomain[1], d.day)

InDomain(xDomain, d) ==
    IF IsBinary64(xDomain[1])
    THEN /\ LessEq64(xDomain[1], Day64(d.day))
         /\ LessEq64(Day64(d.day), xDomain[2])
    ELSE LessEq(xDomain[1], d.day) /\ LessEq(d.day, xDomain[2])

\* drawing the main chart whether or not there is a window to draw
createVisualizationAlways(st) ==
    LET xDomain == IF st.currentBrushSelection # Null
                   THEN st.currentBrushSelection ELSE FullDomain
        visibleData == SelectSeq(st.processedData,
                                 LAMBDA d : InDomain(xDomain, d))
    IN  [st EXCEPT !.svg =
          [drawn   |-> TRUE,
           xDomain |-> xDomain,
           estrus  |-> st.showEstrus /\ st.dataType = "female",
           line    |-> LinePoints(st, visibleData),
           title   |-> st.dataType,
           unit    |-> getTempUnit(st),
           selection |-> Null]]

\* The chart drawn into svg is recorded by what determines it: the x domain
\* (the rects are DarkBands, LightBands and, when estrus is set, EstrusBands
\* of it), the line, the title and the unit.
createVisualization(st) ==
    IF Len(st.processedData) = 0 THEN st
    ELSE
    LET xDomain == IF st.currentBrushSelection # Null
                   THEN st.currentBrushSelection ELSE FullDomain
        visibleData == SelectSeq(st.processedData,
                                 LAMBDA d : InDomain(xDomain, d))
    IN  [st EXCEPT !.svg =
          [drawn   |-> TRUE,
           xDomain |-> xDomain,
           estrus  |-> st.showEstrus /\ st.dataType = "female",
           line    |-> LinePoints(st, visibleData),
           title   |-> st.dataType,
           unit    |-> getTempUnit(st),
           selection |-> Null]]

\* the brush `end` handler; selection is a pair of pixels, or null
brushed(st, selection) ==
    IF selection = Null
    THEN createVisualization([st EXCEPT !.currentBrushSelection = Null])
    ELSE createVisualization(
           [st EXCEPT !.currentBrushSelection =
                        <<xInvert(selection[1]), xInvert(selection[2])>>])

\* The overview drawn into brushSvg: its x domain is the full range, and
\* selection is the range of pixels the brush shows (brush.move), or null.
createBrushVisualization(st) ==
    IF Len(st.processedData) = 0 THEN st
    ELSE
    LET move == IF st.currentBrushSelection # Null
                THEN <<xScaleBrush(st.currentBrushSelection[1]),
                       xScaleBrush(st.currentBrushSelection[2])>>
                ELSE Null
        drawn == [st EXCEPT !.brushSvg =
          [drawn   |-> TRUE,
           xDomain |-> FullDomain,
           estrus  |-> st.showEstrus /\ st.dataType = "female",
           line    |-> LinePoints(st, st.processedData),
           title   |-> "",
           unit    |-> getTempUnit(st),
           selection |-> move]]
    IN  \* brush.move dispatches the `end` event to brushed
        IF move # Null THEN brushed(drawn, move) ELSE drawn

\* the assignment of a view state to the variables
Becomes(st) ==
    /\ processedData' = st.processedData
    /\ useFahrenheit' = st.useFahrenheit
    /\ dataType' = st.dataType
    /\ showEstrus' = st.showEstrus
    /\ currentBrushSelection' = st.currentBrushSelection
    /\ svg' = st.svg
    /\ brushSvg' = st.brushSvg

-----------------------------------------------------------------------------
(* The tables served at /mouse_data.csv *)

F1 == Col("fem_temp_", 1)

M1 == Col("male_temp_", 1)

\* rows of a table whose header is fem_temp_1,male_temp_1
RowValues ==
    { (F1 :> "36.8") @@ (M1 :> "37.4"),
      (F1 :> "37.4") @@ (M1 :> "NA"),
      (F1 :> "NA")   @@ (M1 :> "NA"),
      (F1 :> "")     @@ (M1 :> "37.4") }

ShortTables == UNION {[1..n -> RowValues] : n \in 0..MaxRows}

\* five rows of a table whose only column is fem_temp_1
ScenarioTable ==
    <<(F1 :> "37.0"), (F1 :> "37.2"), (F1 :> "36.8"), (F1 :> "37.4"),
      (F1 :> "37.0")>>

\* a table without any cohort column
OtherTable == <<(Col("minute", 0) :> "0"), (Col("minute", 0) :> "1")>>

\* one row a minute for k half days and one minute more
LongTable(k) ==
    [i \in 1..(k * HalfDay + 1) |-> (F1 :> "36.8") @@ (M1 :> "37.4")]

LongTables == {LongTable(k) : k \in 1..MaxHalfDays}

Tables == ShortTables \cup {ScenarioTable, OtherTable} \cup LongTables

\* the tables of the interactive specification: the five rows of MixedRows
\* again and again, for the windows 0..12 (half an hour and one minute)
MixedRows ==
    <<(F1 :> "36.8") @@ (M1 :> "37.4"), (F1 :> "37.4") @@ (M1 :> "NA"),
      (F1 :> "NA") @@ (M1 :> "NA"), (F1 :> "") @@ (M1 :> "37.4"),
      (F1 :> "36.8") @@ (M1 :> "37.4")>>

MixedTable == [i \in 1..31 |-> MixedRows[((i - 1) % 5) + 1]]

ViewTables == {<<>>, MixedTable, OtherTable}

\* the pixels at which a brush gesture starts or ends
BrushStops == {0, 1, InnerWidth \div 2, InnerWidth}

\* the number the decimal literal with n tenths denotes: n / 10 in binary64
FromTenths(n) == DivInt64(FromInt(n), 10)

\* no temperature is being converted
NotConverted ==
    [stage |-> "none", celsius |-> F64Zero, fahrenheit |-> F64Zero,
     back |-> F64Zero]

\* no window is being followed
NotBanded ==
    [stage |-> "none", windowIndex |-> 0, dataType |-> "female",
     showEstrus |-> TRUE, selection |-> Null, d |-> <<>>, chart |-> Blank]

\* The windows followed through their summary and a drawing: of the windows
\* of 14 days (576 a day), every 72nd, which takes in the first window of
\* every day and of every half day, and the last window of every half day.
WindowsPerDay == (2 * MinutesPerDay) \div 5

BandWindows ==
    {w \in 0..(NumDays * WindowsPerDay - 1) : w % 72 = 0 \/ w % 288 = 287}

\* the ranges they are drawn in: none selected, or one brushed between the
\* quarters of the overview
BandSelections ==
    LET stops == {0, InnerWidth \div 4, InnerWidth \div 2,
                  3 * (InnerWidth \div 4), InnerWidth}
    IN  {Null} \cup {<<xInvert(Whole(t[1])), xInvert(Whole(t[2]))>> :
                        t \in {u \in stops \X stops : u[1] < u[2]}}

-----------------------------------------------------------------------------
(* Actions *)

Loads == awaitingFetch + awaitingText

\* onMount: loadAndProcessData runs up to `await fetch(...)`
OnMount ==
    /\ ~mounted
    /\ mounted' = TRUE
    /\ awaitingFetch' = awaitingFetch + 1
    /\ UNCHANGED <<csv, processedData, useFahrenheit, dataType, showEstrus,
                   currentBrushSelection, awaitingText, rejected, svg, brushSvg,
                   conversion, lastSettled, banding>>

\* a fetch is fulfilled: the call goes on to `await response.text()`
FetchResolved ==
    /\ awaitingFetch > 0
    /\ awaitingFetch' = awaitingFetch - 1
    /\ awaitingText' = awaitingText + 1
    /\ UNCHANGED <<csv, processedData, useFahrenheit, dataType, showEstrus,
                   currentBrushSelection, mounted, rejected, svg, brushSvg,
                   conversion, lastSettled, banding>>

\* a fetch is rejected: the call ends there and nothing catches the rejection
FetchRejected ==
    /\ awaitingFetch > 0
    /\ awaitingFetch' = awaitingFetch - 1
    /\ rejected' = TRUE
    /\ UNCHANGED <<csv, processedData, useFahrenheit, dataType, showEstrus,
                   currentBrushSelection, mounted, awaitingText, svg, brushSvg,
                   conversion, banding>>
    /\ lastSettled' = "rejected"

\* the promise of response.text() is rejected: the call ends at line 93,
\* before anything is assigned or drawn, and nothing catches the rejection
TextRejected ==
    /\ awaitingText > 0
    /\ awaitingText' = awaitingText - 1
    /\ rejected' = TRUE
    /\ UNCHANGED <<csv, processedData, useFahrenheit, dataType, showEstrus,
                   currentBrushSelection, mounted, awaitingFetch, svg,
                   brushSvg, conversion, banding>>
    /\ lastSettled' = "rejected"

\* the cohort whose columns the rest of loadAndProcessData reads (line 117)
CohortRead == dataType

\* a completion that writes the new windows into the previous sequence and
\* leaves every other window of it as it was
TextResolvedInPlace ==
    /\ awaitingText > 0
    /\ awaitingText' = awaitingText - 1
    /\ LET fresh == Aggregate(csv, CohortRead)
           merged == [w \in 1..Len(fresh) |->
                         IF w <= Len(processedData) /\ w % 2 = 1
                         THEN processedData[w] ELSE fresh[w]]
           loaded == [State EXCEPT !.processedData = merged,
                                   !.currentBrushSelection = Null]
       IN  Becomes(createBrushVisualization(createVisualization(loaded)))
    /\ UNCHANGED <<csv, mounted, awaitingFetch, rejected,
                   conversion, banding>>
    /\ lastSettled' = "fulfilled"

\* a completion whose windows hold the temperatures in the unit shown
TextResolvedDisplayed ==
    /\ awaitingText > 0
    /\ awaitingText' = awaitingText - 1
    /\ LET fresh == Aggregate(csv, CohortRead)
           shown == [w \in 1..Len(fresh) |->
                        [fresh[w] EXCEPT
                           !.avgTemp = getDisplayTemp(State, @)]]
           loaded == [State EXCEPT !.processedData = shown,
                                   !.currentBrushSelection = Null]
       IN  Becomes(createBrushVisualization(createVisualization(loaded)))
    /\ UNCHANGED <<csv, mounted, awaitingFetch, rejected,
                   conversion, banding>>
    /\ lastSettled' = "fulfilled"

\* a completion that leaves the range selection as it is
TextResolvedKeepsRange ==
    /\ awaitingText > 0
    /\ awaitingText' = awaitingText - 1
    /\ LET loaded == [State EXCEPT
                        !.processedData = Aggregate(csv, CohortRead)]
       IN  Becomes(createBrushVisualization(createVisualization(loaded)))
    /\ UNCHANGED <<csv, mounted, awaitingFetch, rejected, conversion, banding>>
    /\ lastSettled' = "fulfilled"

\* the text arrives: lines 94-149 of loadAndProcessData run to the end
TextResolved ==
    /\ awaitingText > 0
    /\ awaitingText' = awaitingText - 1
    /\ LET rows == csv
           loaded == [State EXCEPT
                        !.processedData = Aggregate(rows, CohortRead),
                        !.currentBrushSelection = Null]
       IN  Becomes(createBrushVisualization(createVisualization(loaded)))
    /\ UNCHANGED <<csv, mounted, awaitingFetch, rejected,
                   conversion, banding>>
    /\ lastSettled' = "fulfilled"

\* reloading only inside the branch that resets the estrus toggle
ReloadUnlessFemale(newType) ==
    awaitingFetch' = IF newType # "female" THEN awaitingFetch + 1
                                            ELSE awaitingFetch

\* the calls updateDataType makes after its assignments
Reload(newType) == awaitingFetch' = awaitingFetch + 1

\* a cohort change that leaves the estrus switch as it is
UpdateDataTypeKeepsEstrus(newType) ==
    /\ mounted
    /\ newType # dataType
    /\ Loads < MaxLoads
    /\ dataType' = newType
    /\ Reload(newType)
    /\ UNCHANGED <<csv, processedData, useFahrenheit, showEstrus,
                   currentBrushSelection, mounted, awaitingText, rejected,
                   svg, brushSvg, conversion, lastSettled, banding>>

\* the <select> is changed to newType: bind:value, then updateDataType(dataType)
UpdateDataType(newType) ==
    /\ mounted
    /\ newType # dataType
    /\ Loads < MaxLoads
    /\ dataType' = newType
    /\ showEstrus' = IF newType # "female" THEN FALSE ELSE showEstrus
    /\ Reload(newType)
    /\ UNCHANGED <<csv, processedData, useFahrenheit, currentBrushSelection,
                   mounted, awaitingText, rejected, svg, brushSvg,
                   conversion, lastSettled, banding>>

\* the windows with their temperatures converted to the unit switched to
ConvertAll(data, toF) ==
    [w \in 1..Len(data) |->
        [data[w] EXCEPT !.avgTemp = IF toF THEN toFahrenheitExact(@)
                                          ELSE toCelsiusExact(@)]]

\* a toggle that stores the converted temperatures in processedData
ToggleTempUnitStored ==
    /\ mounted
    /\ Becomes(createBrushVisualization(createVisualization(
                 [State EXCEPT !.useFahrenheit = ~useFahrenheit,
                               !.processedData =
                                   ConvertAll(@, ~useFahrenheit)])))
    /\ UNCHANGED <<csv, mounted, awaitingFetch, awaitingText, rejected,
                   conversion, lastSettled, banding>>

ToggleTempUnit ==
    /\ mounted
    /\ Becomes(createBrushVisualization(createVisualization(
                 [State EXCEPT !.useFahrenheit = ~useFahrenheit])))
    /\ UNCHANGED <<csv, mounted, awaitingFetch, awaitingText, rejected,
                   conversion, lastSettled, banding>>

\* a click on the estrus button
ToggleEstrus ==
    /\ mounted
    /\ IF dataType = "female"
       THEN Becomes(createBrushVisualization(createVisualization(
                      [State EXCEPT !.showEstrus = ~showEstrus])))
       ELSE Becomes(State)
    /\ UNCHANGED <<csv, mounted, awaitingFetch, awaitingText, rejected,
                   conversion, lastSettled, banding>>

\* the user ends a brush gesture on the overview: a range of pixels, or a
\* click that clears the brush
Brushed(selection) ==
    /\ mounted
    /\ brushSvg.drawn
    /\ Becomes(brushed([State EXCEPT !.brushSvg.selection = selection],
                       selection))
    /\ UNCHANGED <<csv, mounted, awaitingFetch, awaitingText, rejected,
                   conversion, lastSettled, banding>>

ResetView ==
    /\ mounted
    /\ Becomes(createVisualization(createBrushVisualization(
                 [State EXCEPT !.currentBrushSelection = Null])))
    /\ UNCHANGED <<csv, mounted, awaitingFetch, awaitingText, rejected,
                   conversion, lastSettled, banding>>

BrushSelections ==
    {Null} \cup {<<Whole(s[1]), Whole(s[2])>> :
                    s \in {t \in BrushStops \X BrushStops : t[1] < t[2]}}

\* the map callback of lines 128-142 is applied to the window
Summarise ==
    /\ banding.stage = "window"
    /\ banding' = [banding EXCEPT
                     !.stage = "summary",
                     !.d = WindowSummary(<<banding.windowIndex,
                                           <<Num(372, 10)>>>>)]
    /\ UNCHANGED <<csv, processedData, useFahrenheit, dataType, showEstrus,
                   currentBrushSelection, mounted, awaitingFetch,
                   awaitingText, rejected, svg, brushSvg, conversion,
                   lastSettled>>

\* createVisualization draws the window under the cohort, the estrus switch
\* and the range of the run
DrawBands ==
    /\ banding.stage = "summary"
    /\ banding' = [banding EXCEPT
                     !.stage = "drawn",
                     !.chart = createVisualization(
                         [processedData |-> <<banding.d>>,
                          useFahrenheit |-> FALSE,
                          dataType |-> banding.dataType,
                          showEstrus |-> banding.showEstrus,
                          currentBrushSelection |-> banding.selection,
                          svg |-> Blank, brushSvg |-> Blank]).svg]
    /\ UNCHANGED <<csv, processedData, useFahrenheit, dataType, showEstrus,
                   currentBrushSelection, mounted, awaitingFetch,
                   awaitingText, rejected, svg, brushSvg, conversion,
                   lastSettled>>

\* the pixels at which a gesture on the overview ends, as binary64
Pixels64 == {37 * i : i \in 0..12} \cup {InnerWidth}

BrushSelections64 ==
    {Null} \cup {<<FromInt(s[1]), FromInt(s[2])>> :
                    s \in {t \in Pixels64 \X Pixels64 : t[1] < t[2]}}

\* toFahrenheit is applied to the temperature
ConvertToFahrenheit ==
    /\ conversion.stage = "celsius"
    /\ conversion' = [conversion EXCEPT
                        !.stage = "fahrenheit",
                        !.fahrenheit = toFahrenheit(conversion.celsius)]
    /\ UNCHANGED <<csv, processedData, useFahrenheit, dataType, showEstrus,
                   currentBrushSelection, mounted, awaitingFetch,
                   awaitingText, rejected, svg, brushSvg, lastSettled,
                   banding>>

\* toCelsius is applied to the result of toFahrenheit
ConvertBack ==
    /\ conversion.stage = "fahrenheit"
    /\ conversion' = [conversion EXCEPT
                        !.stage = "back",
                        !.back = toCelsius(conversion.fahrenheit)]
    /\ UNCHANGED <<csv, processedData, useFahrenheit, dataType, showEstrus,
                   currentBrushSelection, mounted, awaitingFetch,
                   awaitingText, rejected, svg, brushSvg, lastSettled,
                   banding>>

-----------------------------------------------------------------------------
(* Specifications *)

\* the component after construction, for one of the tables
InitWith(tables, types) ==
    /\ csv \in tables
    /\ processedData = <<>>
    /\ useFahrenheit = FALSE
    /\ dataType \in types
    /\ showEstrus = (dataType = "female")
    /\ currentBrushSelection = Null
    /\ mounted = FALSE
    /\ awaitingFetch = 0
    /\ awaitingText = 0
    /\ rejected = FALSE
    /\ svg = Blank
    /\ brushSvg = Blank
    /\ conversion = NotConverted
    /\ lastSettled = "none"
    /\ banding = NotBanded

Init == InitWith(ViewTables, {"female"})

Next ==
    \/ OnMount
    \/ FetchResolved
    \/ FetchRejected
    \/ TextResolved
    \/ TextRejected
    \/ \E newType \in DataType : UpdateDataType(newType)
    \/ ToggleTempUnit
    \/ ToggleEstrus
    \/ \E selection \in BrushSelections : Brushed(selection)
    \/ ResetView

Spec == Init /\ [][Next]_vars

\* the aggregation alone: one load of any table under any cohort
InitAggregate == InitWith(Tables, DataType)

NextAggregate ==
    \/ OnMount
    \/ FetchResolved
    \/ FetchRejected
    \/ TextResolved
    \/ TextRejected

SpecAggregate == InitAggregate /\ [][NextAggregate]_vars

\* the selection as it is stored: one load, then unit toggles, view resets
\* and brush gestures whose pixels and days are binary64
InitBrush == InitWith({MixedTable}, {"female"})

NextBrush ==
    \/ OnMount
    \/ FetchResolved
    \/ FetchRejected
    \/ TextResolved
    \/ TextRejected
    \/ ToggleTempUnit
    \/ \E selection \in BrushSelections64 : Brushed(selection)
    \/ ResetView

SpecBrush == InitBrush /\ [][NextBrush]_vars

\* flags and bands alone: a window of the 14 days is summarised and drawn
\* under a cohort, an estrus switch (on only under the female cohort) and a
\* range
InitBands ==
    /\ csv = <<>>
    /\ processedData = <<>>
    /\ useFahrenheit = FALSE
    /\ dataType = "female"
    /\ showEstrus = TRUE
    /\ currentBrushSelection = Null
    /\ mounted = FALSE
    /\ awaitingFetch = 0
    /\ awaitingText = 0
    /\ rejected = FALSE
    /\ svg = Blank
    /\ brushSvg = Blank
    /\ conversion = NotConverted
    /\ lastSettled = "none"
    /\ \E w \in BandWindows, type \in DataType, on \in BOOLEAN,
          selection \in BandSelections :
          /\ on => type = "female"
          /\ banding = [NotBanded EXCEPT !.stage = "window",
                                         !.windowIndex = w,
                                         !.dataType = type,
                                         !.showEstrus = on,
                                         !.selection = selection]

NextBands == Summarise \/ DrawBands

SpecBands == InitBands /\ [][NextBands]_vars

\* the conversions alone: a temperature of 0.0 to MaxTenths / 10 degrees
\* Celsius is taken to Fahrenheit and back
InitConvert ==
    /\ csv = <<>>
    /\ processedData = <<>>
    /\ useFahrenheit = FALSE
    /\ dataType = "female"
    /\ showEstrus = TRUE
    /\ currentBrushSelection = Null
    /\ mounted = FALSE
    /\ awaitingFetch = 0
    /\ awaitingText = 0
    /\ rejected = FALSE
    /\ svg = Blank
    /\ brushSvg = Blank
    /\ lastSettled = "none"
    /\ banding = NotBanded
    /\ \E n \in 0..MaxTenths :
          conversion = [NotConverted EXCEPT !.stage = "celsius",
                                            !.celsius = FromTenths(n)]

NextConvert == ConvertToFahrenheit \/ ConvertBack

SpecConvert == InitConvert /\ [][NextConvert]_vars

-----------------------------------------------------------------------------
(* Claims about the aggregation, under SpecAggregate *)

\* the call of loadAndProcessData has run to its end
Loaded == mounted /\ Loads = 0 /\ ~rejected

\* the least integer that is not below the number x
Ceiling(x) == IF x.d = 1 THEN x.n ELSE (x.n \div x.d) + 1

\* the mean of a non-empty sequence of numbers
RECURSIVE Total(_, _)
Total(values, i) ==
    IF i > Len(values) THEN Whole(0) ELSE Add(values[i], Total(values, i + 1))

MeanOf(values) == Div(Total(values, 1), Whole(Len(values)))

\* the ordinals (from 0) lo..hi-1 of the rows that exist, in order
Ordinals(rows, lo, hi) ==
    LET end == IF hi < Len(rows) THEN hi ELSE Len(rows)
    IN  [o \in 1..(end - lo) |-> lo + o - 1]

\* the code's value of row r: d3.mean of the selected cells, or 0
RowValuesOf(rows, type, ordinals) ==
    [o \in 1..Len(ordinals) |-> RowAvgTemp(rows[ordinals[o] + 1], type)]

\* C1 as stated: a table of n > 0 rows gives ceil(n / 2.5) windows.
C1_Original ==
    (Loaded /\ Len(csv) > 0) =>
        Len(processedData) = Ceiling(Div(Whole(Len(csv)), windowSize))

\* C1, amended: a table of n > 0 rows gives floor((n - 1) / 2.5) + 1 windows,
\* which is ceil(n / 2.5) unless n mod 5 = 3, where it is one less.
C1_WindowCount ==
    (Loaded /\ Len(csv) > 0) =>
        LET n == Len(csv)
            ceil == Ceiling(Div(Whole(n), windowSize))
        IN  /\ Len(processedData) = Floor(Div(Whole(n - 1), windowSize)).n + 1
            /\ Len(processedData) = IF n % 5 = 3 THEN ceil - 1 ELSE ceil

\* three rows fall into one window, where ceil(3 / 2.5) = 2
C1_Witness == Loaded /\ Len(csv) = 3 /\ Len(processedData) = 1

\* the average of the rows lo..hi-1 that exist, as a window's avgTemp
AvgOfRange(lo, hi) ==
    OrZero(MeanOf(RowValuesOf(csv, dataType, Ordinals(csv, lo, hi))))

\* C2 as stated: window i holds the rows floor(2.5 i) <= r < floor(2.5 (i+1)),
\* so its avgTemp is the average of those rows; of five rows, window 0 holds
\* rows 0-1 and window 1 rows 2-4.
C2_Original ==
    Loaded =>
        /\ \A w \in 1..Len(processedData) :
              processedData[w].avgTemp =
                  AvgOfRange(Floor(Mul(Whole(w - 1), windowSize)).n,
                             Floor(Mul(Whole(w), windowSize)).n)
        /\ (csv = ScenarioTable /\ dataType = "female") =>
              /\ Len(processedData) = 2
              /\ processedData[1].avgTemp = Num(371, 10)
              /\ processedData[2].avgTemp = Num(368 + 374 + 370, 30)

\* C2, amended: window i holds exactly the rows ceil(2.5 i) <= r <
\* ceil(2.5 (i+1)), that is the rows with floor(r / 2.5) = i, so its avgTemp
\* is the average of those rows; of five rows, window 0 holds rows 0-2 and
\* window 1 rows 3-4, and the values 37.0, 37.2, 36.8, 37.4, 37.0 give the
\* averages 37.0 and 37.2.
C2_Partition ==
    Loaded =>
        /\ \A w \in 1..Len(processedData) :
              processedData[w].avgTemp =
                  AvgOfRange(Ceiling(Mul(Whole(w - 1), windowSize)),
                             Ceiling(Mul(Whole(w), windowSize)))
        /\ (csv = ScenarioTable /\ dataType = "female") =>
              /\ Len(processedData) = 2
              /\ processedData[1].avgTemp = Num(370 + 372 + 368, 30)
              /\ processedData[2].avgTemp = Num(374 + 370, 20)

\* the five rows of the scenario, aggregated into two windows
C2_Witness ==
    /\ Loaded /\ csv = ScenarioTable /\ dataType = "female"
    /\ Len(processedData) = 2
    /\ processedData[1].avgTemp = Whole(37)
    /\ processedData[2].avgTemp = Num(372, 10)

\* the ordinals of the rows of window w (from 1): floor(r / 2.5) = w - 1
RowsOfWindow(w) ==
    SelectSeq(Ordinals(csv, (5 * (w - 1)) \div 2, (5 * w) \div 2 + 1),
              LAMBDA r : 5 * (w - 1) <= 2 * r /\ 2 * r < 5 * w)

\* no selected cell of row d reads as a number
IsBlankRow(d, type) ==
    \A c \in 1..Len(getTempCols(type)) :
        ~IsNumber(ToNumber(Field(d, getTempCols(type)[c])))

\* the cell of row d in column col holds a numeric reading
IsReading(d, col) == col \in DOMAIN d /\ d[col] \in DOMAIN Decimal

\* the readings of row d in the columns of the cohort, in column order
ReadingsOf(d, type) ==
    LET cols == SelectSeq(getTempCols(type), LAMBDA col : IsReading(d, col))
    IN  [c \in 1..Len(cols) |-> Decimal[d[cols[c]]]]

\* C3: in a window that holds a row whose every selected cell is non-numeric
\* and other rows, avgTemp is the mean of the per-row means of the other rows.
C3_BlankRowExcluded ==
    Loaded =>
        \A w \in 1..Len(processedData) :
            LET in == RowsOfWindow(w)
                with == SelectSeq(in,
                           LAMBDA r : ~IsBlankRow(csv[r + 1], dataType))
            IN  (with # <<>> /\ with # in) =>
                    processedData[w].avgTemp =
                        MeanOf(RowValuesOf(csv, dataType, with))

\* C4: the value a row contributes is the mean of the cells that hold a
\* numeric reading; a missing, empty or non-numeric cell is no value.  Read
\* off the windows that hold a single row, whose avgTemp is that row's value.
C4_MissingCellExcluded ==
    Loaded =>
        \A w \in 1..Len(processedData) :
            LET in == RowsOfWindow(w)
            IN  (Len(in) = 1 /\ ReadingsOf(csv[in[1] + 1], dataType) # <<>>) =>
                    processedData[w].avgTemp =
                        MeanOf(ReadingsOf(csv[in[1] + 1], dataType))

\* the columns of a cohort
CohortColumns(type) ==
    LET fem == {Col("fem_temp_", i) : i \in 1..13}
        male == {Col("male_temp_", i) : i \in 1..13}
    IN  CASE type = "female" -> fem [] type = "male" -> male
          [] type = "both" -> fem \cup male

\* the sum and the count of the cells of row d in the columns of the cohort
\* that read as numbers
RECURSIVE CellTotal(_, _)
CellTotal(d, cols) ==
    IF cols = {} THEN [count |-> 0, sum |-> Whole(0)]
    ELSE LET col == CHOOSE c \in cols : TRUE
             rest == CellTotal(d, cols \ {col})
             v == ToNumber(Field(d, col))
         IN  IF IsNumber(v)
             THEN [count |-> rest.count + 1, sum |-> Add(rest.sum, v)]
             ELSE rest

\* the per-row mean: over the cells that read as numbers, 0 when there is none
PerRowMean(d, type) ==
    LET t == CellTotal(d, CohortColumns(type))
    IN  IF t.count = 0 THEN Whole(0) ELSE Div(t.sum, Whole(t.count))

\* the cells of the rows of window w that read as numbers, pooled
Pooled(w) ==
    LET in == RowsOfWindow(w)
        t == [o \in 1..Len(in) |->
                 CellTotal(csv[in[o] + 1], CohortColumns(dataType))]
    IN  [count |-> Total([o \in 1..Len(in) |-> Whole(t[o].count)], 1).n,
         sum   |-> Total([o \in 1..Len(in) |-> t[o].sum], 1)]

\* C7: every window's avgTemp is the mean, over the rows of the window, of the
\* per-row means, each taken over the columns of the selected cohort (13
\* female, 13 male, or all 26); a row none of whose cells reads as a number
\* enters with the value 0 the code gives it.
C7_MeanOfMeans ==
    Loaded =>
        \A w \in 1..Len(processedData) :
            LET in == RowsOfWindow(w)
            IN  processedData[w].avgTemp =
                    MeanOf([o \in 1..Len(in) |->
                               PerRowMean(csv[in[o] + 1], dataType)])

\* a window of both cohorts whose avgTemp is not the pooled mean of its cells
C7_Witness ==
    /\ Loaded /\ dataType = "both"
    /\ \E w \in 1..Len(processedData) :
          /\ Len(RowsOfWindow(w)) > 1
          /\ Pooled(w).count > 0
          /\ processedData[w].avgTemp #
                 Div(Pooled(w).sum, Whole(Pooled(w).count))

\* C8: the windows come in increasing windowIndex order with the indices
\* 0..N-1 (element k, from 1, has minute = (k - 1) * 2.5), so the day position
\* minute / 1440 does not decrease from one element to the next.
C8_WindowOrder ==
    Loaded =>
        /\ \A w \in 1..Len(processedData) :
              /\ processedData[w].minute = Mul(Whole(w - 1), Num(5, 2))
              /\ processedData[w].day = Div(processedData[w].minute, Whole(1440))
        /\ \A w \in 1..(Len(processedData) - 1) :
              LessEq(processedData[w].day, processedData[w + 1].day)

\* more than a day of windows: the window at minute 1440 is at day position 1
C8_Witness ==
    /\ Loaded /\ Len(processedData) > 576
    /\ processedData[577].day = Whole(1)

\* the minute n/d of a window lies in the first 720 minutes of its day
InFirstHalf(minute) == minute.n % (1440 * minute.d) < 720 * minute.d

\* the day floor(minute / 1440) of the minute n/d
DayOf(minute) == minute.n \div (1440 * minute.d)

\* C9: a window's light flag is 1 when its minute mod 1440 is below 720 and 0
\* otherwise.
C9_LightFlag ==
    Loaded =>
        \A w \in 1..Len(processedData) :
            processedData[w].light =
                IF InFirstHalf(processedData[w].minute) THEN 1 ELSE 0

\* the flag has gone to 0 in the second half of a day and back to 1 in the next
C9_Witness ==
    /\ Loaded
    /\ \E v, w \in 1..Len(processedData) :
          /\ v < w
          /\ processedData[v].light = 0
          /\ processedData[w].light = 1

\* C10: a window's estrus flag is 1 when floor(minute / 1440) mod 4 = 2 and 0
\* otherwise.
C10_EstrusFlag ==
    Loaded =>
        \A w \in 1..Len(processedData) :
            processedData[w].estrus =
                IF DayOf(processedData[w].minute) % 4 = 2 THEN 1 ELSE 0

\* the flag is 1 on the third day and 0 again on the fourth
C10_Witness ==
    /\ Loaded
    /\ \E v, w \in 1..Len(processedData) :
          /\ v < w
          /\ processedData[v].estrus = 1
          /\ processedData[w].estrus = 0

\* C11: a window none of whose rows holds a numeric reading in the columns of
\* the selected cohort has avgTemp = 0.
C11_EmptyWindowIsZero ==
    Loaded =>
        \A w \in 1..Len(processedData) :
            LET in == RowsOfWindow(w)
            IN  (\A o \in 1..Len(in) :
                     ReadingsOf(csv[in[o] + 1], dataType) = <<>>)
                => processedData[w].avgTemp = Whole(0)

\* a window of two rows whose selected cells are all 'NA', after a window
\* that holds readings
C11_Witness ==
    /\ Loaded /\ dataType = "male"
    /\ Len(csv) = 5 /\ Len(processedData) = 2
    /\ \A r \in 4..5 : Field(csv[r], M1).s = "NA"
    /\ processedData[1].avgTemp # Whole(0)
    /\ processedData[2].avgTemp = Whole(0)

\* the pixel x lies in a rect: from its left edge up to, not including, its
\* right edge
InBand(band, x) ==
    LessEq(band.x, x) /\ Less(x, Add(band.x, band.width))

InSomeBand(bands, x) == \E b \in 1..Len(bands) : InBand(bands[b], x)

-----------------------------------------------------------------------------
(* Claims about the handlers, under Spec *)

\* a step that takes a suspended call of loadAndProcessData further
LoadStep == awaitingFetch' < awaitingFetch \/ awaitingText' < awaitingText

\* C5: once the chart is drawn, a recomputation that is under way is
\* finished before anything else is processed: while a call is suspended the
\* next step is that of a suspended call, never another interaction.
C5_Original == [][(svg.drawn /\ Loads > 0) => LoadStep]_vars

\* C6: once no call of loadAndProcessData is pending (and none was rejected),
\* processedData is the aggregation of the table under the cohort selected
\* last, in whatever order the calls went on.
C6_LastTriggerWins == Loaded => processedData = Aggregate(csv, dataType)

\* all loads done after cohort changes that ended on 'both'
C6_Witness ==
    /\ Loaded /\ dataType = "both" /\ useFahrenheit
    /\ Len(processedData) > 0
    /\ processedData = Aggregate(csv, "both")
    /\ processedData # Aggregate(csv, "female")

\* C12: a table of zero rows aggregates to the empty sequence, and the render
\* functions, whichever handler calls them, draw nothing into either chart.
C12_EmptyTableDrawsNothing ==
    (csv = <<>>) => /\ processedData = <<>>
                    /\ svg = Blank
                    /\ brushSvg = Blank

\* the empty table has been loaded, and the unit and the estrus toggle have
\* each called the render functions since
C12_Witness ==
    /\ csv = <<>> /\ Loaded
    /\ useFahrenheit /\ ~showEstrus
    /\ ~svg.drawn /\ ~brushSvg.drawn

\* the table has rows and none of them has a column of either cohort
NoCohortColumn(rows) ==
    /\ Len(rows) > 0
    /\ \A r \in 1..Len(rows) : \A c \in 1..Len(getTempCols("both")) :
           Field(rows[r], getTempCols("both")[c]).t = "undefined"

\* C13: a load that fails draws no chart and lets no error escape: no
\* rejection of fetch is left unhandled, and from a table that lacks the
\* cohort columns nothing is drawn into either chart.
C13_FailedLoadDrawsNothing ==
    /\ ~rejected
    /\ NoCohortColumn(csv) => (~svg.drawn /\ ~brushSvg.drawn)

\* C14: at every moment, a load pending or not, a chart on screen has estrus
\* bands only if the selected cohort is female.
C14_EstrusOnlyFemale ==
    /\ (svg.drawn /\ svg.estrus) => dataType = "female"
    /\ (brushSvg.drawn /\ brushSvg.estrus) => dataType = "female"

\* the windows are Celsius aggregates of the table: the avgTemp of every
\* window is the mean of the values of its rows under one of the cohorts
CelsiusWindows ==
    \E type \in DataType :
        \A w \in 1..Len(processedData) :
            processedData[w].avgTemp =
                MeanOf(RowValuesOf(csv, type, RowsOfWindow(w)))

\* C15: the unit is applied at display time only: in every state the avgTemp
\* of every window is the Celsius aggregate, whatever the unit shown, and a
\* step that toggles the unit leaves processedData as it was.
C15_UnitNotStored ==
    /\ []CelsiusWindows
    /\ [][(useFahrenheit' # useFahrenheit)
             => processedData' = processedData]_vars

\* the chart shows Fahrenheit over windows that hold Celsius
C15_Witness ==
    /\ useFahrenheit /\ svg.drawn /\ svg.unit = "F"
    /\ Len(processedData) > 0 /\ CelsiusWindows
    /\ processedData[1].avgTemp # Whole(0)
    /\ svg.line[1].temp = toFahrenheitExact(processedData[1].avgTemp)
    /\ svg.line[1].temp # processedData[1].avgTemp

\* a is at most b, for two numbers
NotAbove(a, b) == a.n * b.d <= b.n * a.d

\* the windows of data from the i-th on whose day lies in [range[1], range[2]],
\* in the order of data
RECURSIVE Kept(_, _, _)
Kept(data, range, i) ==
    IF i > Len(data) THEN <<>>
    ELSE (IF NotAbove(range[1], data[i].day) /\ NotAbove(data[i].day, range[2])
          THEN <<data[i]>> ELSE <<>>) \o Kept(data, range, i + 1)

\* the line of the main chart is drawn over the windows of the selected range
LineIsFilter ==
    svg.drawn =>
        LET range == IF currentBrushSelection = Null
                     THEN <<Whole(0), Whole(14)>> ELSE currentBrushSelection
            kept == Kept(processedData, range, 1)
        IN  /\ Len(svg.line) = Len(kept)
            /\ \A p \in 1..Len(kept) :
                  /\ svg.line[p].day = kept[p].day
                  /\ svg.line[p].temp =
                        (IF useFahrenheit
                         THEN Add(Div(Mul(kept[p].avgTemp, Whole(9)), Whole(5)),
                                  Whole(32))
                         ELSE kept[p].avgTemp)

\* C16: the selected range is a pure filter over the day position: the main
\* chart draws exactly the windows with x0 <= day <= x1, in the order of
\* processedData, and a step that selects a range leaves processedData as it
\* was.
C16_RangeIsFilter ==
    /\ []LineIsFilter
    /\ [][(currentBrushSelection' # currentBrushSelection /\ ~LoadStep)
             => processedData' = processedData]_vars

\* a range whose windows are a proper part of processedData that is not a
\* prefix of it
C16_Witness ==
    /\ svg.drawn /\ currentBrushSelection # Null
    /\ Len(svg.line) > 0 /\ Len(svg.line) < Len(processedData)
    /\ svg.line[1].day # processedData[1].day
    /\ svg.line[Len(svg.line)].day = processedData[Len(processedData)].day

\* a step in which a call of loadAndProcessData runs to its end: the text
\* has arrived (a call that is rejected at line 93 ends without completing)
Completes == awaitingText' < awaitingText /\ lastSettled' = "fulfilled"

\* C17: processedData changes only when a call of loadAndProcessData
\* completes, and the sequence a completing call leaves is, window for window,
\* computed from the rows of the table under the one cohort selected then: no
\* window of the previous sequence stays and no two windows are of different
\* cohorts.
C17_ReplacedAsUnit ==
    [][/\ (processedData' # processedData) => Completes
       /\ Completes =>
             /\ Len(processedData') = Len(Aggregate(csv, dataType))
             /\ \A w \in 1..Len(processedData') :
                   processedData'[w].avgTemp =
                       MeanOf(RowValuesOf(csv, dataType, RowsOfWindow(w)))]_vars

\* a cohort change has completed: every window is of the male cohort and
\* differs from the window of the female cohort it replaced
C17_Witness ==
    /\ Loaded /\ dataType = "male" /\ svg.title = "male"
    /\ Len(processedData) > 1
    /\ processedData = Aggregate(csv, "male")
    /\ \A w \in 1..Len(processedData) :
          processedData[w].avgTemp # Aggregate(csv, "female")[w].avgTemp

\* The sequence that the rows of the table and a cohort determine, written
\* from the window rule alone: window w (from 1) starts at minute 2.5 (w - 1),
\* holds the rows r with 5 (w - 1) <= 2 r < 5 w, and averages their row means.
WindowsOf(type) ==
    LET count == IF Len(csv) = 0 THEN 0 ELSE (2 * (Len(csv) - 1)) \div 5 + 1
    IN  [w \in 1..count |->
          LET minute == Num(5 * (w - 1), 2)
              in == RowsOfWindow(w)
          IN  [minute  |-> minute,
               day     |-> Num(5 * (w - 1), 2 * 1440),
               avgTemp |-> MeanOf([o \in 1..Len(in) |->
                                     PerRowMean(csv[in[o] + 1], type)]),
               light   |-> IF InFirstHalf(minute) THEN 1 ELSE 0,
               estrus  |-> IF DayOf(minute) % 4 = 2 THEN 1 ELSE 0]]

\* C18: aggregation is deterministic: every call that completes leaves the
\* sequence that the rows and the cohort alone determine, element for
\* element, whatever the unit, the estrus toggle and the range selection are
\* at that moment and whatever sequence was there before; so two calls with
\* the same rows and cohort leave identical sequences.
C18_Deterministic ==
    [][Completes => processedData' = WindowsOf(dataType)]_vars

\* a second call over the same rows and cohort is about to complete, under
\* another unit, estrus toggle and range than those of the first call
C18_Witness ==
    /\ awaitingText > 0 /\ svg.drawn
    /\ dataType = "female" /\ Len(processedData) > 1
    /\ processedData = Aggregate(csv, dataType)
    /\ useFahrenheit /\ ~showEstrus /\ currentBrushSelection # Null

\* the day at pixel px of the overview: 14 days over 680 pixels
PixelDay(px) == Div(Mul(px, Whole(14)), Whole(680))

\* C20: after every brush `end` event the x domain of the main chart is the
\* brushed range of pixels converted to days, which is currentBrushSelection;
\* when the brush holds no selection, currentBrushSelection is null and the
\* main chart shows the full range [0, 14].
C20_BrushSetsDomain ==
    brushSvg.drawn =>
        IF brushSvg.selection = Null
        THEN /\ currentBrushSelection = Null
             /\ svg.xDomain = <<Whole(0), Whole(14)>>
        ELSE /\ currentBrushSelection = <<PixelDay(brushSvg.selection[1]),
                                          PixelDay(brushSvg.selection[2])>>
             /\ svg.xDomain = currentBrushSelection

\* the left half of the overview is brushed: the main chart shows days 0 to 7
C20_Witness ==
    /\ brushSvg.drawn /\ svg.drawn
    /\ brushSvg.selection = <<Whole(0), Whole(340)>>
    /\ currentBrushSelection = <<Whole(0), Whole(7)>>
    /\ svg.xDomain = <<Whole(0), Whole(7)>>

\* C21: when a call of loadAndProcessData completes, currentBrushSelection
\* is null, and the charts it draws (it draws both when the table has rows)
\* are over the full range: the main chart has the x domain [0, 14] and the
\* overview has no selection, whatever range was selected before.
C21_LoadResetsRange ==
    [][Completes =>
          /\ currentBrushSelection' = Null
          /\ (Len(csv) > 0) => (svg'.drawn /\ brushSvg'.drawn)
          /\ svg'.drawn => svg'.xDomain = <<Whole(0), Whole(14)>>
          /\ brushSvg'.drawn => brushSvg'.selection = Null]_vars

\* a call is about to complete while a range is selected that was brushed
\* after the cohort change that started the call
C21_Witness ==
    /\ awaitingText > 0 /\ svg.drawn
    /\ dataType = "male" /\ svg.title = "male"
    /\ currentBrushSelection # Null
    /\ svg.xDomain = currentBrushSelection
    /\ brushSvg.selection # Null

\* C22: the main chart always describes the cohort whose data it plots: when
\* it is drawn, processedData is the aggregation of the table for the cohort
\* named in its title, and it has estrus bands only under the title of the
\* female cohort.
C22_ChartDescribesPlottedCohort ==
    svg.drawn =>
        /\ processedData = Aggregate(csv, svg.title)
        /\ svg.estrus => svg.title = "female"

\* the rects of a sequence of bands all have a width of zero or more
WidthsNotNegative(bands) ==
    \A b \in 1..Len(bands) : NotAbove(Whole(0), bands[b].width)

\* C23: every rect of the main chart has a non-negative width, whatever range
\* [x0, x1] with 0 <= x0 < x1 <= 14 is selected: the 14 lights-off rects, the
\* 14 lights-on rects and the estrus rects.
C23_WidthsNotNegative ==
    svg.drawn =>
        /\ NotAbove(Whole(0), svg.xDomain[1])
        /\ Less(svg.xDomain[1], svg.xDomain[2])
        /\ NotAbove(svg.xDomain[2], Whole(NumDays))
        /\ WidthsNotNegative(DarkBands(svg.xDomain))
        /\ WidthsNotNegative(LightBands(svg.xDomain))
        /\ svg.estrus => WidthsNotNegative(EstrusBands(svg.xDomain))

\* C24: showEstrus is true only while dataType is 'female': a change of the
\* cohort to 'male' or 'both' leaves showEstrus false, and while the cohort
\* is not 'female' no step that keeps the cohort (a click on the estrus
\* toggle among them) changes showEstrus.
C24_EstrusSwitchOnlyFemale ==
    /\ [](showEstrus => dataType = "female")
    /\ [][/\ (dataType' # dataType /\ dataType' # "female") => ~showEstrus'
          /\ (dataType # "female" /\ dataType' = dataType)
                => showEstrus' = showEstrus]_vars

\* the cohort was changed to male while the estrus switch was on: the switch
\* is off, and the chart still has the bands drawn while it was on
C24_Witness ==
    /\ dataType = "male" /\ ~showEstrus
    /\ svg.drawn /\ svg.estrus /\ svg.title = "female"

-----------------------------------------------------------------------------
(* Claims about the unit conversions, under SpecConvert *)

\* the distance of two numbers
Gap64(a, b) == IF LessEq64(a, b) THEN Sub64(b, a) ELSE Sub64(a, b)

\* 2^-46, about 1.4e-14 degrees
Tolerance == [hi |-> 2^25, lo |-> 0, e |-> -98]

\* C19 as stated: toCelsius(toFahrenheit(x)) = x for every x.
C19_Original ==
    conversion.stage = "back" => conversion.back = conversion.celsius

\* C19, amended: for a temperature x of 0 to MaxTenths / 10 degrees,
\* toCelsius(toFahrenheit(x)) is x within a tolerance of 2^-46 degrees; it
\* is not x itself for every x, of which C19_Witness is a case.
C19_WithinTolerance ==
    conversion.stage = "back" =>
        LessEq64(Gap64(conversion.back, conversion.celsius), Tolerance)

\* 37.2 has gone to 98.96000000000001 and come back as 37.20000000000001,
\* the binary64 next above 37.2
C19_Witness ==
    /\ conversion.stage = "back"
    /\ conversion.celsius = FromTenths(372)
    /\ conversion.back # conversion.celsius
    /\ conversion.back = [conversion.celsius EXCEPT !.lo = @ + 1]

-----------------------------------------------------------------------------
(* Claims about the stored selection, under SpecBrush *)

\* C25: toggleTempUnit changes only useFahrenheit: currentBrushSelection,
\* dataType and showEstrus are after it what they were before it, and the
\* overview it draws again shows the selection it showed before.
C25_UnitToggleKeepsSelection ==
    [][(useFahrenheit' # useFahrenheit) =>
          /\ currentBrushSelection' = currentBrushSelection
          /\ dataType' = dataType
          /\ showEstrus' = showEstrus
          /\ brushSvg'.selection = brushSvg.selection]_vars

-----------------------------------------------------------------------------
(* Claims about flags and bands, under SpecBands *)

\* the followed window is on the line of the chart drawn for it
BandedOnLine == banding.stage = "drawn" /\ Len(banding.chart.line) = 1

\* the pixel at which it is drawn
BandedX == xScale(banding.chart.xDomain, banding.d.day)

InDarkBand == InSomeBand(DarkBands(banding.chart.xDomain), BandedX)

\* it lies in an estrus rect of the chart, which has such rects only when
\* the cohort is female and the estrus switch is on (line 229)
InEstrusBand ==
    /\ banding.chart.estrus
    /\ InSomeBand(EstrusBands(banding.chart.xDomain), BandedX)

\* C26 as stated: a window on the line whose day is in [0, 14) is inside a
\* lights-off rect exactly when its light flag is 1, and inside an estrus
\* rect exactly when its estrus flag is 1.
C26_Original ==
    (/\ BandedOnLine
     /\ LessEq(Whole(0), banding.d.day)
     /\ Less(banding.d.day, Whole(NumDays)))
    => /\ InDarkBand <=> banding.d.light = 1
       /\ InEstrusBand <=> banding.d.estrus = 1

\* C26, amended: a window on the line that lies left of the right end of
\* the range shown (of [0, 14) when no range is selected) is inside a
\* lights-off rect exactly when its light flag is 1; when the chart has
\* estrus rects (female cohort, estrus switch on) it is inside one of them
\* exactly when its estrus flag is 1, and otherwise the chart has no estrus
\* rect whatever the flag is.
C26_BandsAgreeWithFlags ==
    (/\ BandedOnLine
     /\ Less(banding.d.day, banding.chart.xDomain[2]))
    => /\ InDarkBand <=> banding.d.light = 1
       /\ banding.chart.estrus => (InEstrusBand <=> banding.d.estrus = 1)
       /\ banding.chart.estrus
            <=> (banding.showEstrus /\ banding.dataType = "female")

\* the female cohort with its estrus rects over the second half of the 14
\* days: a window in the lights-on half of estrus day 10
C26_Witness ==
    /\ BandedOnLine /\ banding.chart.estrus
    /\ banding.chart.xDomain = <<Whole(7), Whole(14)>>
    /\ DayOf(banding.d.minute) = 10
    /\ banding.d.estrus = 1 /\ banding.d.light = 0
    /\ InEstrusBand /\ ~InDarkBand

=============================================================================
